---- MODULE Spec2Model ----
(***************************************************************************)
(* The "recent" batching memory of tensorforce: a fixed-capacity ring      *)
(* buffer of timestep records, the table of terminal indices, and the two  *)
(* retrieval queries of tensorforce/core/memories/recent.py.               *)
(*                                                                         *)
(* The write side (Queue.enqueue) is not part of the sources at hand; it   *)
(* is modelled from the specification (spec.md 3, 4.1, 8): an unbounded    *)
(* write cursor buffer_index, and a terminal index table holding the       *)
(* cursor value at which each terminal timestep was written.               *)
(***************************************************************************)
EXTENDS Integers, Sequences, FiniteSets

(* ------------------------------ bounds ------------------------------- *)

\* Appends are explored up to buffer_index = 2 * capacity + MaxExtra.
MaxExtra == 4
\* At most this many terminal records are appended.
MaxEpisodes == 2
\* Largest n a retrieval is called with.
MaxN == 3
\* Largest past_horizon / future_horizon a retrieval is called with.
MaxHorizon == 1

\* Largest memory capacity a DoubleDQN is constructed with.
MaxMemory == 2
\* Largest batch_size, update_frequency and start_updating of a DoubleDQN.
MaxBatchSize == 2

\* Capacities the memory is constructed with (capacity is an int > 0).
Capacities == {1, 2, 3}
\* The larger capacity of the wraparound example (spec.md 8), explored with
\* non-terminal appends only: retrieve_timesteps reads nothing but the
\* capacity and the cursor.
WrapCapacities == Capacities \cup {8}

(* ------------------------------ state -------------------------------- *)

VARIABLES
    capacity,          \* self.capacity, fixed at construction
    buffer_index,      \* self.buffer_index, the write cursor
    episode_count,     \* self.episode_count
    terminal_indices,  \* self.terminal_indices, position -> cursor value
    memory,            \* the stored records, slot -> record
    written,           \* every record appended so far, oldest first
    call,              \* the most recent operation and what it returned
    reader,            \* a retrieval run read by read, beside the appends
    agent              \* a DoubleDQN under construction

vars == <<capacity, buffer_index, episode_count, terminal_indices, memory,
          written, call, reader, agent>>

store == <<capacity, buffer_index, episode_count, terminal_indices, memory,
           written>>

\* The long constants of recent.py:42 (and :58) and recent.py:57
one == 1
zero == 0

\* Number of positions of the terminal index table (at least episode_count + 1).
TableSize == MaxEpisodes + 1

\* Position 0 of the table: the boundary before the first episode.
Sentinel == 0 - one

NoRecord == [timestep |-> 0 - one, terminal |-> FALSE]

NoIndices == << >>

(* --------------------------- tensor helpers -------------------------- *)

\* tf.minimum
minimum(x, y) == IF x <= y THEN x ELSE y

\* tf.debugging.assert_greater_equal: TRUE when the assertion passes
assert_greater_equal(x, y) == x >= y

\* tf.range(start, limit) with delta 1: start, start + 1, ..., limit - 1.
\* (The kernel requires start <= limit; the callers below state that.)
range(start, limit) ==
    IF limit > start THEN [k \in 1..(limit - start) |-> start + (k - 1)]
    ELSE << >>

\* The truncating remainder (sign of the dividend), as C's % computes it.
truncatemod(x, y) == IF x >= 0 THEN x % y ELSE 0 - ((0 - x) % y)

\* tf.math.mod on integers is the floor modulo: the result has the sign of y.
mod(x, y) == x % y

\* tf.where on scalars
where(condition, x, y) == IF condition THEN x ELSE y

\* x[i] on a rank-1 tensor of the given size: a negative i counts from the end.
index_in_bounds(i, size) == (0 - size) <= i /\ i < size
canonical_index(i, size) == IF i < 0 THEN size + i ELSE i

(* ------------------- Recent.tf_retrieve_timesteps -------------------- *)

\* As num_timesteps, with the future horizon left out of the margin.
num_timesteps_past_only(past_horizon, future_horizon) ==
    minimum(buffer_index, capacity) - past_horizon

\* recent.py:46
num_timesteps(past_horizon, future_horizon) ==
    minimum(buffer_index, capacity) - past_horizon - future_horizon

\* recent.py:47, TRUE when the assertion passes
timesteps_assertion(past_horizon, future_horizon) ==
    assert_greater_equal(num_timesteps(past_horizon, future_horizon), one)

\* As timesteps_indices, with the range not shifted back by future_horizon.
timesteps_indices_unshifted(n, future_horizon) ==
    LET indices == range(buffer_index - n, buffer_index)
    IN  [k \in DOMAIN indices |-> mod(indices[k], capacity)]

\* recent.py:51-52
timesteps_indices(n, future_horizon) ==
    LET indices == range(buffer_index - n, buffer_index)
    IN  [k \in DOMAIN indices |-> mod(indices[k] - future_horizon, capacity)]

\* As tf_retrieve_timesteps, but a refused call still hands back the range.
tf_retrieve_timesteps_partial(n, past_horizon, future_horizon) ==
    IF timesteps_assertion(past_horizon, future_horizon)
    THEN [status |-> "ok", indices |-> timesteps_indices(n, future_horizon)]
    ELSE [status |-> "fail", indices |-> timesteps_indices(n, future_horizon)]

\* recent.py:41-54: the value returned, or the failed assertion
tf_retrieve_timesteps(n, past_horizon, future_horizon) ==
    IF timesteps_assertion(past_horizon, future_horizon)
    THEN [status |-> "ok", indices |-> timesteps_indices(n, future_horizon)]
    ELSE [status |-> "fail", indices |-> NoIndices]

(* -------------------- Recent.tf_retrieve_episodes -------------------- *)

\* As episodes_assertion, comparing against zero.
episodes_assertion_zero == assert_greater_equal(episode_count, zero)

\* recent.py:62, TRUE when the assertion passes
episodes_assertion == assert_greater_equal(episode_count, one)

\* self.terminal_indices[i], recent.py:66-67
terminal_index(i) == terminal_indices[canonical_index(i, TableSize)]

\* As episodes_start, without the increment past the previous terminal.
episodes_start_at_terminal(n) == terminal_index(episode_count - n)

\* recent.py:66 and :69
episodes_start(n) == terminal_index(episode_count - n) + one

\* As episodes_limit, with the capacity added whatever the comparison says.
episodes_limit_always_corrected(n) ==
    terminal_index(episode_count) + one + capacity

\* As episodes_limit, without the correction.
episodes_limit_uncorrected(n) == terminal_index(episode_count) + one

\* recent.py:67, :70 and :73
episodes_limit(n) ==
    LET limit == terminal_index(episode_count) + one
    IN  limit + where(limit < episodes_start(n), capacity, zero)

\* recent.py:76-77
episodes_indices(n) ==
    LET indices == range(episodes_start(n), episodes_limit(n))
    IN  [k \in DOMAIN indices |-> mod(indices[k], capacity)]

\* recent.py:56-79: the value returned, or the failed assertion.  Besides the
\* assertion, the read at position episode_count - n fails when it is out of
\* the table's bounds, and tf.range requires start <= limit.
tf_retrieve_episodes(n) ==
    IF  /\ episodes_assertion
        /\ index_in_bounds(episode_count - n, TableSize)
        /\ episodes_start(n) <= episodes_limit(n)
    THEN [status |-> "ok", indices |-> episodes_indices(n)]
    ELSE [status |-> "fail", indices |-> NoIndices]

(* ------------------------------ actions ------------------------------ *)

NoCall == [op |-> "none", n |-> 0, past_horizon |-> 0, future_horizon |-> 0,
           terminal |-> FALSE, status |-> "none", indices |-> NoIndices]

\* No retrieval is being run read by read.
NoReader == [op |-> "none", pc |-> "idle", n |-> 0, status |-> "none",
             gate |-> 0, first |-> 0, last |-> 0, start |-> 0,
             indices |-> NoIndices]

\* No DoubleDQN is being constructed.
None == {}
Some(v) == {v}
NoAgent == [pc |-> "none", estimate_terminal |-> None, memory |-> 0,
            batch_size |-> 0, update_frequency |-> None,
            start_updating |-> None, error |-> None, spec |-> None,
            parent |-> None]

\* After construction: nothing written, no episode, the table holding its
\* sentinel at position 0 and zeros at the positions not yet recorded.
Init ==
    /\ capacity \in Capacities
    /\ buffer_index = 0
    /\ episode_count = 0
    /\ terminal_indices = [j \in 0..(TableSize - 1) |->
                              IF j = 0 THEN Sentinel ELSE 0]
    /\ memory = [s \in 0..(capacity - 1) |-> NoRecord]
    /\ written = << >>
    /\ call = NoCall
    /\ reader = NoReader
    /\ agent = NoAgent

\* As append, but the table entry is the wrapped slot of the terminal record.
append_wrapped_entry(terminal) ==
    /\ buffer_index < 2 * capacity + MaxExtra
    /\ terminal => episode_count < MaxEpisodes
    /\ memory' = [memory EXCEPT ![mod(buffer_index, capacity)] =
                     [timestep |-> buffer_index, terminal |-> terminal]]
    /\ written' = Append(written, [slot |-> mod(buffer_index, capacity),
                                   terminal |-> terminal])
    /\ buffer_index' = buffer_index + 1
    /\ IF terminal
       THEN /\ episode_count' = episode_count + 1
            /\ terminal_indices' =
                   [terminal_indices EXCEPT
                       ![episode_count + 1] = mod(buffer_index, capacity)]
       ELSE UNCHANGED <<episode_count, terminal_indices>>
    /\ call' = [NoCall EXCEPT !.op = "append", !.terminal = terminal,
                              !.status = "ok"]
    /\ UNCHANGED <<capacity, reader, agent>>

\* As append, but the entry is recorded before the count is incremented, at
\* the position of the previous episode.
append_overwriting_entry(terminal) ==
    /\ buffer_index < 2 * capacity + MaxExtra
    /\ terminal => episode_count < MaxEpisodes
    /\ memory' = [memory EXCEPT ![mod(buffer_index, capacity)] =
                     [timestep |-> buffer_index, terminal |-> terminal]]
    /\ written' = Append(written, [slot |-> mod(buffer_index, capacity),
                                   terminal |-> terminal])
    /\ buffer_index' = buffer_index + 1
    /\ IF terminal
       THEN /\ episode_count' = episode_count + 1
            /\ terminal_indices' =
                   [terminal_indices EXCEPT ![episode_count] = buffer_index]
       ELSE UNCHANGED <<episode_count, terminal_indices>>
    /\ call' = [NoCall EXCEPT !.op = "append", !.terminal = terminal,
                              !.status = "ok"]
    /\ UNCHANGED <<capacity, reader, agent>>

\* append(record, is_terminal): the record goes to slot buffer_index mod
\* capacity, the cursor advances, and a terminal record adds a table entry
\* holding the cursor value at which it was written (spec.md 3, and the
\* episode example of spec.md 8: terminals written at 4, 9, 15 give the
\* range [10, 16)).  This is the convention recent.py:66-70 reads the table
\* with: start is the entry of the previous terminal plus one.
append(terminal) ==
    /\ buffer_index < 2 * capacity + MaxExtra
    /\ terminal => episode_count < MaxEpisodes
    /\ memory' = [memory EXCEPT ![mod(buffer_index, capacity)] =
                     [timestep |-> buffer_index, terminal |-> terminal]]
    /\ written' = Append(written, [slot |-> mod(buffer_index, capacity),
                                   terminal |-> terminal])
    /\ buffer_index' = buffer_index + 1
    /\ IF terminal
       THEN /\ episode_count' = episode_count + 1
            /\ terminal_indices' =
                   [terminal_indices EXCEPT ![episode_count + 1] = buffer_index]
       ELSE UNCHANGED <<episode_count, terminal_indices>>
    /\ call' = [NoCall EXCEPT !.op = "append", !.terminal = terminal,
                              !.status = "ok"]
    /\ UNCHANGED <<capacity, reader, agent>>

\* As retrieve_timesteps, but a successful retrieval consumes what it returns.
retrieve_timesteps_consuming(n, past_horizon, future_horizon) ==
    LET result == tf_retrieve_timesteps(n, past_horizon, future_horizon)
    IN  /\ call' = [NoCall EXCEPT !.op = "retrieve_timesteps", !.n = n,
                        !.past_horizon = past_horizon,
                        !.future_horizon = future_horizon,
                        !.status = result.status, !.indices = result.indices]
        /\ buffer_index' = IF result.status = "ok" /\ buffer_index >= n
                           THEN buffer_index - n ELSE buffer_index
        /\ UNCHANGED <<capacity, episode_count, terminal_indices, memory,
                       written, reader, agent>>

\* A call of retrieve_timesteps(n, past_horizon, future_horizon)
retrieve_timesteps(n, past_horizon, future_horizon) ==
    LET result == tf_retrieve_timesteps(n, past_horizon, future_horizon)
    IN  /\ call' = [NoCall EXCEPT !.op = "retrieve_timesteps", !.n = n,
                        !.past_horizon = past_horizon,
                        !.future_horizon = future_horizon,
                        !.status = result.status, !.indices = result.indices]
        /\ UNCHANGED <<store, reader, agent>>

\* A call of retrieve_episodes(n)
retrieve_episodes(n) ==
    LET result == tf_retrieve_episodes(n)
    IN  /\ call' = [NoCall EXCEPT !.op = "retrieve_episodes", !.n = n,
                        !.status = result.status, !.indices = result.indices]
        /\ UNCHANGED <<store, reader, agent>>

Next ==
    \/ \E terminal \in BOOLEAN : append(terminal)
    \/ \E n \in 1..MaxN, past_horizon \in 0..MaxHorizon,
          future_horizon \in 0..MaxHorizon :
          retrieve_timesteps(n, past_horizon, future_horizon)
    \/ \E n \in 1..MaxN : retrieve_episodes(n)

Spec == Init /\ [][Next]_vars

\* The timestep side alone, over the larger capacity as well.
InitTimesteps ==
    /\ capacity \in WrapCapacities
    /\ buffer_index = 0
    /\ episode_count = 0
    /\ terminal_indices = [j \in 0..(TableSize - 1) |->
                              IF j = 0 THEN Sentinel ELSE 0]
    /\ memory = [s \in 0..(capacity - 1) |-> NoRecord]
    /\ written = << >>
    /\ call = NoCall
    /\ reader = NoReader
    /\ agent = NoAgent

NextTimesteps ==
    \/ append(FALSE)
    \/ \E n \in 1..MaxN, past_horizon \in 0..MaxHorizon,
          future_horizon \in 0..MaxHorizon :
          retrieve_timesteps(n, past_horizon, future_horizon)

SpecTimesteps == InitTimesteps /\ [][NextTimesteps]_vars

(* ------------- the retrievals, one variable read at a time ----------- *)

\* Each use of self.buffer_index, self.episode_count and
\* self.terminal_indices in recent.py is a read of its own; here the reads of
\* one retrieval are separate steps, so that appends can fall between them.
\* The horizons are zero.

\* recent.py:46-47: the read of buffer_index for the assertion
read_timesteps_gate(n) ==
    /\ reader.pc \in {"idle", "done"}
    /\ reader' = [NoReader EXCEPT
                     !.op = "retrieve_timesteps", !.n = n,
                     !.gate = buffer_index,
                     !.pc = IF timesteps_assertion(zero, zero)
                            THEN "gate" ELSE "done",
                     !.status = IF timesteps_assertion(zero, zero)
                                THEN "running" ELSE "fail"]
    /\ UNCHANGED <<store, call, agent>>

\* As read_timesteps_start, starting one timestep early.
read_timesteps_start_early ==
    /\ reader.pc = "gate" /\ reader.op = "retrieve_timesteps"
    /\ reader' = [reader EXCEPT !.pc = "start", !.first = buffer_index,
                                !.start = buffer_index - reader.n - 1]
    /\ UNCHANGED <<store, call, agent>>

\* recent.py:51: the read of buffer_index for start = buffer_index - n
read_timesteps_start ==
    /\ reader.pc = "gate" /\ reader.op = "retrieve_timesteps"
    /\ reader' = [reader EXCEPT !.pc = "start", !.first = buffer_index,
                                !.start = buffer_index - reader.n]
    /\ UNCHANGED <<store, call, agent>>

\* recent.py:51-52: the read of buffer_index for limit, then range and mod
read_timesteps_limit ==
    /\ reader.pc = "start" /\ reader.op = "retrieve_timesteps"
    /\ LET indices == range(reader.start, buffer_index)
       IN  reader' = [reader EXCEPT
                         !.pc = "done", !.status = "ok",
                         !.last = buffer_index,
                         !.indices = [k \in DOMAIN indices |->
                                         mod(indices[k] - zero, capacity)]]
    /\ UNCHANGED <<store, call, agent>>

\* recent.py:62: the read of episode_count for the assertion
read_episodes_gate(n) ==
    /\ reader.pc \in {"idle", "done"}
    /\ reader' = [NoReader EXCEPT
                     !.op = "retrieve_episodes", !.n = n,
                     !.gate = episode_count,
                     !.pc = IF episodes_assertion THEN "gate" ELSE "done",
                     !.status = IF episodes_assertion
                                THEN "running" ELSE "fail"]
    /\ UNCHANGED <<store, call, agent>>

\* recent.py:66 and :69: the read of episode_count and of the start entry
read_episodes_start ==
    /\ reader.pc = "gate" /\ reader.op = "retrieve_episodes"
    /\ reader' =
           IF index_in_bounds(episode_count - reader.n, TableSize)
           THEN [reader EXCEPT !.pc = "start", !.first = episode_count,
                               !.start = episodes_start(reader.n)]
           ELSE [reader EXCEPT !.pc = "done", !.status = "fail",
                               !.first = episode_count]
    /\ UNCHANGED <<store, call, agent>>

\* recent.py:67 and :70-77: the read of episode_count and of the limit
\* entry, the correction against the start read before, range and mod
read_episodes_limit ==
    /\ reader.pc = "start" /\ reader.op = "retrieve_episodes"
    /\ LET raw == terminal_index(episode_count) + one
           limit == raw + where(raw < reader.start, capacity, zero)
           indices == range(reader.start, limit)
       IN  reader' =
               IF reader.start <= limit
               THEN [reader EXCEPT
                        !.pc = "done", !.status = "ok",
                        !.last = episode_count,
                        !.indices = [k \in DOMAIN indices |->
                                        mod(indices[k], capacity)]]
               ELSE [reader EXCEPT !.pc = "done", !.status = "fail",
                                   !.last = episode_count]
    /\ UNCHANGED <<store, call, agent>>

NextInterleaved ==
    \/ \E terminal \in BOOLEAN : append(terminal)
    \/ \E n \in 1..MaxN : read_timesteps_gate(n)
    \/ read_timesteps_start
    \/ read_timesteps_limit
    \/ \E n \in 1..MaxN : read_episodes_gate(n)
    \/ read_episodes_start
    \/ read_episodes_limit

SpecInterleaved == Init /\ [][NextInterleaved]_vars

(* ------------------------- DoubleDQN.__init__ ------------------------ *)

\* The construction of a DoubleDQN agent (double_dqn.py:206-292), with the
\* arguments that decide its control flow and the memory and update
\* configuration; an argument left at None is the empty set.

\* The arguments a constructor call is made with
InitDoubleDQN ==
    /\ capacity = 1
    /\ buffer_index = 0
    /\ episode_count = 0
    /\ terminal_indices = [j \in 0..(TableSize - 1) |->
                              IF j = 0 THEN Sentinel ELSE 0]
    /\ memory = [s \in 0..(capacity - 1) |-> NoRecord]
    /\ written = << >>
    /\ call = NoCall
    /\ reader = NoReader
    /\ \E estimate_terminal \in {None, Some(TRUE), Some(FALSE)},
          mem \in 1..MaxMemory, batch_size \in 1..MaxBatchSize,
          update_frequency \in {None} \cup {Some(v) : v \in 1..MaxBatchSize},
          start_updating \in {None} \cup {Some(v) : v \in 1..MaxBatchSize} :
          agent = [NoAgent EXCEPT
                      !.pc = "entered",
                      !.estimate_terminal = estimate_terminal,
                      !.memory = mem, !.batch_size = batch_size,
                      !.update_frequency = update_frequency,
                      !.start_updating = start_updating]

\* As estimate_terminal_given, testing the argument's truth value.
estimate_terminal_truthy == agent.estimate_terminal = Some(TRUE)

\* double_dqn.py:232: estimate_terminal is not None
estimate_terminal_given == agent.estimate_terminal /= None

\* double_dqn.py:232-236: the deprecation error, or on to the body
check_estimate_terminal ==
    /\ agent.pc = "entered"
    /\ agent' =
          IF estimate_terminal_given
          THEN [agent EXCEPT
                   !.pc = "raised",
                   !.error = Some([error |-> "deprecated",
                                   name |-> "DoubleDQN",
                                   argument |-> "estimate_terminal",
                                   replacement |-> "predict_terminal_values"])]
          ELSE [agent EXCEPT !.pc = "checked"]
    /\ UNCHANGED <<store, call, reader>>

\* double_dqn.py:238-252: self.spec = OrderedDict(agent='dqn', ...)
record_spec ==
    /\ agent.pc = "checked"
    /\ agent' = [agent EXCEPT
                    !.pc = "recorded",
                    !.spec = Some([agent |-> "dqn",
                                   memory |-> agent.memory,
                                   batch_size |-> agent.batch_size,
                                   update_frequency |-> agent.update_frequency,
                                   start_updating |-> agent.start_updating])]
    /\ UNCHANGED <<store, call, reader>>

\* double_dqn.py:254-292: the memory and update configuration, handed to
\* the parent constructor
call_parent ==
    /\ agent.pc = "recorded"
    /\ agent' = [agent EXCEPT
                    !.pc = "parent",
                    !.parent = Some(
                        [memory |-> [type |-> "replay",
                                     capacity |-> agent.memory],
                         update |-> [unit |-> "timesteps",
                                     batch_size |-> agent.batch_size,
                                     frequency |-> agent.update_frequency,
                                     start |-> agent.start_updating]])]
    /\ UNCHANGED <<store, call, reader>>

NextDoubleDQN ==
    \/ check_estimate_terminal
    \/ record_spec
    \/ call_parent

SpecDoubleDQN == InitDoubleDQN /\ [][NextDoubleDQN]_vars

(* ------------------------- what the claims use ----------------------- *)

IsTimesteps == call.op = "retrieve_timesteps"
IsEpisodes == call.op = "retrieve_episodes"
Succeeded == call.status = "ok"
Failed == call.status = "fail"

\* min(buffer_index, capacity) - past_horizon - future_horizon of the call
Available ==
    (IF buffer_index <= capacity THEN buffer_index ELSE capacity)
        - call.past_horizon - call.future_horizon

\* The oldest timestep not yet overwritten: max(0, buffer_index - capacity)
OldestValid ==
    IF buffer_index > capacity THEN buffer_index - capacity ELSE 0

\* The logical timestep behind the k-th index returned by retrieve_timesteps
TimestepAt(k) == buffer_index - call.n - call.future_horizon + (k - 1)

\* a and b differ by a multiple of the capacity
Congruent(a, b) ==
    \E q \in (0 - (buffer_index + call.n + call.future_horizon + 2))
                 ..(buffer_index + 2) : a - b = q * capacity

(* ----------------------------- C1 ------------------------------------ *)

\* C1: retrieve_timesteps(n, past_horizon, future_horizon) fails when
\* min(buffer_index, capacity) - past_horizon - future_horizon < 1, and
\* otherwise succeeds and returns exactly n slot indices.
C1_AvailabilityGate ==
    IsTimesteps =>
        /\ Available < 1 => Failed
        /\ Available >= 1 => Succeeded /\ Len(call.indices) = call.n

\* An accepted call right at the gate: one timestep left once both horizon
\* margins are taken, and MaxN indices returned.
C1_Witness ==
    /\ IsTimesteps /\ Succeeded
    /\ Available = 1 /\ call.future_horizon = 1 /\ call.past_horizon = 1
    /\ Len(call.indices) = call.n /\ call.n = MaxN

(* ----------------------------- C2 ------------------------------------ *)

\* C2: whenever retrieve_timesteps succeeds, every returned slot holds a
\* timestep i that is written and not overwritten, and so are the past_horizon
\* timesteps before it and the future_horizon timesteps after it:
\* max(0, buffer_index - capacity) <= i - past_horizon and
\* i + future_horizon < buffer_index.
C2_EveryWindowValid ==
    (IsTimesteps /\ Succeeded) =>
        \A k \in 1..Len(call.indices) :
            /\ OldestValid <= TimestepAt(k) - call.past_horizon
            /\ TimestepAt(k) + call.future_horizon < buffer_index
            /\ memory[call.indices[k]].timestep = TimestepAt(k)

(* ----------------------------- C4 ------------------------------------ *)

\* C4: retrieve_timesteps fails whenever fewer than n qualifying timesteps
\* exist: min(buffer_index, capacity) - past_horizon - future_horizon < n.
C4_FailsBelowN ==
    (IsTimesteps /\ Available < call.n) => Failed

(* ----------------------------- C3 ------------------------------------ *)

\* C3: retrieve_episodes(n) fails whenever fewer than n episodes have
\* completed (episode_count < n).
C3_FailsBelowNEpisodes ==
    (IsEpisodes /\ episode_count < call.n) => Failed

(* ----------------------------- C5 ------------------------------------ *)

\* Positions (1-based, timestep + 1) of the appended records, read from the
\* history of appends alone.
TerminalsBefore(i) == Cardinality({j \in 1..(i - 1) : written[j].terminal})
CompletedEpisodes == Cardinality({j \in 1..Len(written) : written[j].terminal})

\* The records of the n most recently completed episodes.
RecentEpisodeRecords(n) ==
    {i \in 1..Len(written) :
        /\ TerminalsBefore(i) >= CompletedEpisodes - n
        /\ TerminalsBefore(i) < CompletedEpisodes}

\* The slots those records were written to, oldest record first.
RecentEpisodeSlots(n) ==
    LET S == RecentEpisodeRecords(n)
        at(k) == CHOOSE i \in S : Cardinality({j \in S : j < i}) = k - 1
    IN  [k \in 1..Cardinality(S) |-> written[at(k)].slot]

\* C5: when at least n appended records were terminal, retrieve_episodes(n)
\* returns, oldest first, exactly the slots of the timesteps of the n most
\* recently completed episodes: from the timestep after the terminal of the
\* (n+1)-th most recent episode (or the first timestep ever written) through
\* the terminal of the most recent episode, and no other timestep.
C5_RecentEpisodes ==
    (IsEpisodes /\ call.n <= CompletedEpisodes) =>
        /\ Succeeded
        /\ call.indices = RecentEpisodeSlots(call.n)

\* One episode retrieved while an older episode and newer, unfinished
\* timesteps are in the buffer, after the buffer has wrapped.
C5_Witness ==
    /\ IsEpisodes /\ Succeeded /\ call.n = 1
    /\ CompletedEpisodes = 2
    /\ buffer_index > capacity
    /\ ~written[Len(written)].terminal
    /\ Len(call.indices) = 2
    /\ terminal_indices[1] > 0

(* ----------------------------- C6 ------------------------------------ *)

\* C6: a successful retrieve_episodes(n) returns no slot of a timestep
\* outside the valid data window: every logical index of the returned range
\* lies in [max(0, buffer_index - capacity), buffer_index).
C6_EpisodesInsideWindow ==
    (IsEpisodes /\ Succeeded) =>
        \A k \in 1..Len(call.indices) :
            LET i == episodes_start(call.n) + (k - 1)
            IN  /\ OldestValid <= i
                /\ i < buffer_index
                /\ memory[call.indices[k]].timestep = i

(* ----------------------------- C9 ------------------------------------ *)

\* C9: retrieve_episodes(n) fails for every n > 0 in every state with
\* episode_count = 0, whatever buffer_index is.
C9_NoEpisodeFails ==
    (IsEpisodes /\ episode_count = 0) => Failed

\* A refused call on a buffer that is full of non-terminal timesteps.
C9_Witness ==
    /\ IsEpisodes /\ Failed /\ call.n = 1
    /\ episode_count = 0
    /\ buffer_index > capacity
    /\ \A s \in 0..(capacity - 1) : memory[s].timestep >= 0

(* ----------------------------- C7 ------------------------------------ *)

\* The logical index behind the k-th index the call returned
LogicalAt(k) ==
    IF IsTimesteps THEN TimestepAt(k) ELSE episodes_start(call.n) + (k - 1)

\* C7: every slot index returned by retrieve_timesteps or retrieve_episodes
\* is in [0, capacity) and is congruent to its logical index modulo the
\* capacity (the floor modulo), also when the logical index is negative.
C7_SlotIsFloorModulo ==
    ((IsTimesteps \/ IsEpisodes) /\ Succeeded) =>
        \A k \in 1..Len(call.indices) :
            /\ call.indices[k] \in 0..(capacity - 1)
            /\ Congruent(LogicalAt(k), call.indices[k])

\* A range that starts below zero: logical -2, -1, 0 with capacity 3.
C7_Witness ==
    /\ IsTimesteps /\ Succeeded
    /\ capacity = 3 /\ buffer_index = 1 /\ call.n = 3
    /\ call.future_horizon = 0
    /\ TimestepAt(1) = 0 - 2
    /\ call.indices = <<1, 2, 0>>

(* ----------------------------- C8 ------------------------------------ *)

\* The slot in [0, capacity) congruent to logical index i
SlotOf(i) == CHOOSE s \in 0..(capacity - 1) : Congruent(i, s)

\* C8: a successful retrieve_timesteps returns, oldest first, the slots of
\* the contiguous increasing logical range
\* [buffer_index - n - future_horizon, buffer_index - future_horizon); with
\* capacity 8, buffer_index 20, n = 3 and both horizons 0 that is 1, 2, 3.
C8_ContiguousRange ==
    (IsTimesteps /\ Succeeded) =>
        /\ call.indices =
               [k \in 1..call.n |->
                   SlotOf(buffer_index - call.n - call.future_horizon + (k - 1))]
        /\ ( /\ capacity = 8 /\ buffer_index = 20 /\ call.n = 3
             /\ call.past_horizon = 0 /\ call.future_horizon = 0 )
               => call.indices = <<1, 2, 3>>

\* The wraparound example of spec.md 8
C8_Witness ==
    /\ IsTimesteps /\ Succeeded
    /\ capacity = 8 /\ buffer_index = 20 /\ call.n = 3
    /\ call.past_horizon = 0 /\ call.future_horizon = 0
    /\ call.indices = <<1, 2, 3>>

(* ----------------------------- C10 ----------------------------------- *)

SameCall ==
    /\ call'.op = call.op
    /\ call'.n = call.n
    /\ call'.past_horizon = call.past_horizon
    /\ call'.future_horizon = call.future_horizon

\* C10: a retrieval, successful or failed, leaves the capacity, buffer_index,
\* episode_count, the terminal index table and the stored records unchanged,
\* and a retrieval that repeats the previous call gives the same outcome.
C10_PureQuery ==
    [][ call'.op \in {"retrieve_timesteps", "retrieve_episodes"} =>
            /\ store' = store
            /\ SameCall => /\ call'.status = call.status
                           /\ call'.indices = call.indices ]_vars

\* A successful retrieval on a memory that holds episodes and has wrapped
C10_Witness ==
    /\ IsTimesteps /\ Succeeded /\ call.n = 2
    /\ buffer_index > capacity
    /\ episode_count = 2
    /\ memory[0].timestep > 0

(* ----------------------------- C11 ----------------------------------- *)

IsAppendStep == call'.op = "append"

\* C11: after k appends, interleaved with any retrievals, buffer_index is k:
\* every append increases it by exactly 1, no other operation changes it,
\* and the appended record is written at slot (buffer_index before the
\* append) mod capacity, the other slots keeping their records.
C11_CursorCountsAppends ==
    [][ /\ buffer_index' = Len(written')
        /\ IsAppendStep =>
              /\ buffer_index' = buffer_index + 1
              /\ Len(written') = Len(written) + 1
              /\ \E s \in 0..(capacity - 1) :
                    /\ s = buffer_index - capacity * (buffer_index \div capacity)
                    /\ memory'[s].timestep = buffer_index
                    /\ memory'[s].terminal = call'.terminal
                    /\ \A t \in (0..(capacity - 1)) \ {s} :
                          memory'[t] = memory[t]
        /\ ~IsAppendStep => /\ buffer_index' = buffer_index
                            /\ written' = written ]_vars

\* Five appends with a retrieval after them: the cursor is 5 and timestep 4
\* sits in slot 1 of 3.
C11_Witness ==
    /\ capacity = 3 /\ buffer_index = 5 /\ Len(written) = 5
    /\ memory[1].timestep = 4 /\ memory[2].timestep = 2
    /\ IsTimesteps /\ Succeeded

(* ----------------------------- C12 ----------------------------------- *)

IsRetrievalStep == call'.op \in {"retrieve_timesteps", "retrieve_episodes"}

\* C12: a retrieval whose precondition fails returns no index sequence at
\* all, changes no state, and is not retried by the memory: once a call has
\* failed, no step turns that failure into a result except a new call by the
\* caller, and the same call repeated with no append in between fails again.
C12_FailureIsFinal ==
    [][ /\ (IsRetrievalStep /\ call'.status = "fail") =>
              /\ call'.indices = NoIndices
              /\ store' = store
        /\ (Failed /\ IsRetrievalStep /\ SameCall) =>
              /\ call'.status = "fail"
              /\ call'.indices = NoIndices
        /\ (Failed /\ ~IsRetrievalStep) => IsAppendStep ]_vars

\* A call refused because the horizons use up the two timesteps written
C12_Witness ==
    /\ IsTimesteps /\ Failed
    /\ buffer_index = 2 /\ capacity = 3 /\ call.n = 2
    /\ call.past_horizon = 1 /\ call.future_horizon = 1
    /\ call.indices = NoIndices

(* ----------------------------- C13 ----------------------------------- *)

\* The table entries the call reads when 1 <= n <= episode_count
StartEntry == terminal_indices[episode_count - call.n]
LimitEntry == terminal_indices[episode_count]

\* C13: for 1 <= n <= episode_count, retrieve_episodes(n) returns the slots
\* of the logical range [terminal_indices[episode_count - n] + 1,
\* terminal_indices[episode_count] + 1): limit >= start holds, the
\* wraparound correction adds 0, and the result has exactly
\* terminal_indices[episode_count] - terminal_indices[episode_count - n]
\* indices.
C13_RawTableRange ==
    (IsEpisodes /\ 1 <= call.n /\ call.n <= episode_count) =>
        /\ Succeeded
        /\ LimitEntry + 1 >= StartEntry + 1
        /\ Len(call.indices) = LimitEntry - StartEntry
        /\ \A k \in 1..Len(call.indices) :
              call.indices[k] = SlotOf(StartEntry + k)

\* Two episodes retrieved, longer together than the buffer
C13_Witness ==
    /\ IsEpisodes /\ Succeeded /\ call.n = 2 /\ episode_count = 2
    /\ capacity = 3
    /\ terminal_indices[1] = 1 /\ terminal_indices[2] = 4
    /\ call.indices = <<0, 1, 2, 0, 1>>

(* ----------------------------- C18 ----------------------------------- *)

\* C18: when the caller keeps n <= min(buffer_index, capacity) -
\* past_horizon - future_horizon, every index returned by retrieve_timesteps
\* has its whole window [i - past_horizon, i + future_horizon] inside the
\* valid data window [max(0, buffer_index - capacity), buffer_index), and no
\* logical index of the range is negative.
C18_GateSufficesWithinN ==
    (IsTimesteps /\ Succeeded /\ call.n <= Available) =>
        \A k \in 1..Len(call.indices) :
            /\ TimestepAt(k) >= 0
            /\ OldestValid <= TimestepAt(k) - call.past_horizon
            /\ TimestepAt(k) + call.future_horizon < buffer_index
            /\ memory[call.indices[k]].timestep = TimestepAt(k)
            /\ \A j \in (TimestepAt(k) - call.past_horizon)
                          ..(TimestepAt(k) + call.future_horizon) :
                  \E s \in 0..(capacity - 1) : memory[s].timestep = j

\* A call that asks for all that is available on a wrapped buffer
C18_Witness ==
    /\ IsTimesteps /\ Succeeded
    /\ capacity = 3 /\ buffer_index > capacity
    /\ call.n = 2 /\ Available = 2
    /\ call.past_horizon = 0 /\ call.future_horizon = 1

(* ----------------------------- C19 ----------------------------------- *)

PairwiseDistinct(seq) ==
    \A i, j \in 1..Len(seq) : i /= j => seq[i] /= seq[j]

\* C19: a successful retrieve_timesteps returns pairwise distinct slot
\* indices exactly when n <= capacity; for n > capacity some slot appears
\* more than once.
C19_DistinctIffWithinCapacity ==
    (IsTimesteps /\ Succeeded) =>
        (PairwiseDistinct(call.indices) <=> call.n <= capacity)

\* Three indices from a buffer of two slots
C19_Witness ==
    /\ IsTimesteps /\ Succeeded
    /\ capacity = 2 /\ call.n = 3 /\ buffer_index = 4
    /\ call.indices = <<1, 0, 1>>

(* ----------------------------- C15 ----------------------------------- *)

\* C15: the terminal index table is strictly increasing over positions
\* 0..episode_count, the sentinel at position 0 included, and an entry never
\* changes once it is recorded: every position j <= episode_count keeps its
\* value through all later appends.
C15_TableIncreasingAndFixed ==
    [][ /\ \A j \in 0..episode_count :
              terminal_indices'[j] = terminal_indices[j]
        /\ \A i, j \in 0..episode_count' :
              i < j => terminal_indices'[i] < terminal_indices'[j] ]_vars

\* Two recorded episodes followed by appends that wrap the buffer
C15_Witness ==
    /\ episode_count = 2 /\ capacity = 2
    /\ terminal_indices[0] = 0 - 1
    /\ terminal_indices[1] = 0 /\ terminal_indices[2] = 3
    /\ buffer_index = 7
    /\ call.op = "append"

(* ----------------------------- C16 ----------------------------------- *)

\* C16: episode_count is the number of terminal records appended so far: a
\* terminal append increases it by exactly 1 and records one new table entry
\* at the new position episode_count, a non-terminal append leaves it and
\* the whole table unchanged, and it never decreases.
C16_CountIsTerminalsAppended ==
    [][ /\ episode_count' = CompletedEpisodes'
        /\ episode_count' >= episode_count
        /\ (IsAppendStep /\ call'.terminal) =>
              /\ episode_count' = episode_count + 1
              /\ terminal_indices'[episode_count'] = buffer_index
              /\ \A j \in (0..(TableSize - 1)) \ {episode_count'} :
                    terminal_indices'[j] = terminal_indices[j]
        /\ (IsAppendStep /\ ~call'.terminal) =>
              /\ episode_count' = episode_count
              /\ terminal_indices' = terminal_indices ]_vars

\* Two terminal records among six appended, the last append non-terminal
C16_Witness ==
    /\ episode_count = 2 /\ Len(written) = 6
    /\ written[2].terminal /\ written[5].terminal
    /\ call.op = "append" /\ ~call.terminal
    /\ terminal_indices[1] = 1 /\ terminal_indices[2] = 4

(* ----------------------------- C14 ----------------------------------- *)

\* retrieve_episodes as a function of its inputs: the table entries are
\* wrapped slot values in [0, capacity), as in a table whose own indexing
\* wrapped (spec.md 4.3), so that limit < start happens.
InitWrapped ==
    /\ capacity \in Capacities
    /\ buffer_index = 0
    /\ episode_count \in 1..MaxEpisodes
    /\ terminal_indices \in [0..(TableSize - 1) -> 0..(capacity - 1)]
    /\ memory = [s \in 0..(capacity - 1) |-> NoRecord]
    /\ written = << >>
    /\ call = NoCall
    /\ reader = NoReader
    /\ agent = NoAgent

NextWrapped == \E n \in 1..MaxN : retrieve_episodes(n)

SpecWrapped == InitWrapped /\ [][NextWrapped]_vars

\* start and limit of the call as raw integers, after the increment by one
RawStart == terminal_indices[episode_count - call.n] + 1
RawLimit == terminal_indices[episode_count] + 1

\* C14: the limit is corrected once and only when limit < start after both
\* were incremented: then the result is the slots of [start, limit +
\* capacity), of length limit + capacity - start; when limit >= start nothing
\* is added; with table entries in [0, capacity) the corrected range is never
\* empty and never longer than capacity.
C14_CorrectionOnce ==
    (IsEpisodes /\ call.n <= episode_count) =>
        /\ Succeeded
        /\ RawLimit < RawStart =>
              /\ Len(call.indices) = RawLimit + capacity - RawStart
              /\ Len(call.indices) >= 1
              /\ Len(call.indices) <= capacity
        /\ RawLimit >= RawStart =>
              Len(call.indices) = RawLimit - RawStart
        /\ \A k \in 1..Len(call.indices) :
              call.indices[k] = SlotOf(RawStart + (k - 1))

\* Previous terminal in slot 2, last terminal in slot 0 of 3: the range is
\* [3, 4), one timestep, in slot 0.
C14_Witness ==
    /\ IsEpisodes /\ Succeeded /\ call.n = 1
    /\ capacity = 3 /\ episode_count = 2
    /\ terminal_indices[1] = 2 /\ terminal_indices[2] = 0
    /\ call.indices = <<0>>

(* ----------------------------- C17 ----------------------------------- *)

ReadTimesteps == reader.op = "retrieve_timesteps" /\ reader.status = "ok"
ReadEpisodes == reader.op = "retrieve_episodes" /\ reader.status = "ok"

\* Terminal records among the timesteps start, ..., start + length - 1
TerminalsIn(start, length) ==
    Cardinality({i \in start..(start + length - 1) :
                    i >= 0 /\ i < Len(written) /\ written[i + 1].terminal})

\* C17: a retrieval that reads its counter at separate points returns a
\* range no single memory state gives as soon as an append falls between
\* the reads: retrieve_timesteps returns n plus as many indices as appends
\* fell between the read for start and the read for limit, and
\* retrieve_episodes covers n plus as many episodes as terminal appends fell
\* between them.  When the reads see one and the same counter value (an
\* atomic snapshot) the result is the n indices, or the n episodes, of that
\* state.
C17_SplitReadsStretchTheRange ==
    /\ ReadTimesteps =>
          /\ Len(reader.indices) = reader.n + (reader.last - reader.first)
          /\ reader.last = reader.first =>
                /\ Len(reader.indices) = reader.n
                /\ \A k \in 1..reader.n :
                      reader.indices[k] =
                          SlotOf(reader.first - reader.n + (k - 1))
    /\ (ReadEpisodes /\ reader.n <= reader.first) =>
          /\ TerminalsIn(reader.start, Len(reader.indices))
                 = reader.n + (reader.last - reader.first)
          /\ reader.last = reader.first =>
                TerminalsIn(reader.start, Len(reader.indices)) = reader.n

\* One append between the reads for start and limit: n + 1 indices
C17_Witness ==
    /\ ReadTimesteps
    /\ reader.n = 2 /\ reader.first = 3 /\ reader.last = 4
    /\ capacity = 3
    /\ reader.indices = <<1, 2, 0>>

\* One terminal append between the two reads: n + 1 episodes
C17_WitnessEpisodes ==
    /\ ReadEpisodes
    /\ reader.n = 1 /\ reader.first = 1 /\ reader.last = 2
    /\ TerminalsIn(reader.start, Len(reader.indices)) = 2

(* ----------------------------- C20 ----------------------------------- *)

\* C20: constructing DoubleDQN with an estimate_terminal other than None
\* fails with a deprecation error that names predict_terminal_values as the
\* replacement, before the agent spec is recorded and before the parent
\* constructor runs; with estimate_terminal = None no error is raised and
\* the parent constructor gets a replay memory of the given capacity.
C20_DeprecatedArgumentRejected ==
    /\ (agent.estimate_terminal /= None /\ agent.pc /= "entered"
            /\ agent.pc /= "none") =>
          /\ agent.pc = "raised"
          /\ agent.error = {[error |-> "deprecated", name |-> "DoubleDQN",
                             argument |-> "estimate_terminal",
                             replacement |-> "predict_terminal_values"]}
          /\ agent.spec = {}
          /\ agent.parent = {}
    /\ (agent.estimate_terminal = {} /\ agent.pc /= "none") =>
          /\ agent.pc /= "raised"
          /\ agent.error = {}
          /\ agent.pc = "parent" =>
                /\ agent.spec /= {}
                /\ \E p \in agent.parent :
                      p.memory = [type |-> "replay",
                                  capacity |-> agent.memory]

\* estimate_terminal=False is refused as well: it is not None
C20_Witness ==
    /\ agent.pc = "raised"
    /\ agent.estimate_terminal = {FALSE}
    /\ agent.memory = 2
    /\ agent.spec = {} /\ agent.parent = {}

\* Without the argument the parent constructor is reached
C20_WitnessParent ==
    /\ agent.pc = "parent"
    /\ agent.estimate_terminal = {}
    /\ agent.memory = 2
    /\ \E p \in agent.parent : p.memory.capacity = 2

====
